---------------------------- MODULE Spec2Model ----------------------------
(***************************************************************************)
(* State-machine model of secretflow/ml/nn/sl/backend/tensorflow/sl_base.py *)
(*   SLBaseTFModel  : the split-learning partition (base / fuse networks)  *)
(*   ModelPartition : the torch-style partition                            *)
(*                                                                         *)
(* Conventions.  A Python value that may be None is a sequence of length   *)
(* 0 (None) or 1 (the value).  A tensor is a sequence of integers, one per *)
(* row; len(tensor) is its number of rows.  A python dict is a function    *)
(* whose domain is its key set; a string key is the sequence of its        *)
(* pieces, so that 'val_' + name is sequence concatenation.                *)
(***************************************************************************)
EXTENDS Integers, Sequences, FiniteSets, TLC

None == <<>>
Some(v) == <<v>>
IsNone(o) == Len(o) = 0
Val(o) == o[1]

\* ------------------------------------------------------------- bounds
\* calls made on one SLBaseTFModel in a behaviour of Spec
MaxSteps == 4
\* calls made on one SLBaseTFModel in a behaviour of SpecLife
MaxLifeSteps == 8
\* calls made on one ModelPartition in a behaviour of SpecMP
MaxCalls == 5

\* ------------------------------------------------------------- tensors
RECURSIVE SumSeq(_)
SumSeq(s) == IF Len(s) = 0 THEN 0 ELSE s[1] + SumSeq(Tail(s))

\* element r of t, a one-row tensor being broadcast
At(t, r) == IF Len(t) = 1 THEN t[1] ELSE t[r]

\* elementwise sum of a non-empty list of tensors with the rows of the first
RECURSIVE AddAll(_)
AddAll(ts) ==
    IF Len(ts) = 1 THEN ts[1]
    ELSE LET rest == AddAll(Tail(ts))
         IN  [r \in 1..Len(ts[1]) |-> ts[1][r] + At(rest, r)]

Abs(x) == IF x < 0 THEN -x ELSE x

RECURSIVE MaxAbs(_)
MaxAbs(t) ==
    IF Len(t) = 0 THEN 0
    ELSE LET m == MaxAbs(Tail(t)) IN IF Abs(t[1]) > m THEN Abs(t[1]) ELSE m

\* ------------------------------------------------------------- messages
\* What crosses the party boundary: an embedding, or a list of gradients.
\*   enc   : "dense" (a tensor / ndarray), or the encoding a compressor made
\*   multi : TRUE for a python list of tensors, FALSE for a single tensor
\*   ts    : the tensors
Msg(enc, multi, ts) == [enc |-> enc, multi |-> multi, ts |-> ts]

\* python len() of a tensor or of a list of tensors
PyLen(m) == IF m.multi THEN Len(m.ts) ELSE Len(m.ts[1])


\* ------------------------------------------------------------- collaborators
\* The compressor handed to the constructor: None, a Compressor that is not a
\* SparseCompressor ("plain"), or a SparseCompressor ("sparse").
Compressors == {"none", "plain", "sparse"}

\* Compressor.compress on one tensor.  "plain" is a reversible re-encoding of
\* every element; "sparse" keeps the elements of largest magnitude and zeroes
\* the others.
Compress(kind, t) ==
    IF kind = "plain" THEN [r \in 1..Len(t) |-> 2 * t[r]]
    ELSE LET m == MaxAbs(t)
         IN  [r \in 1..Len(t) |-> IF Abs(t[r]) = m THEN t[r] ELSE 0]

\* Compressor.decompress on one encoded tensor
Decompress(kind, e) ==
    IF kind = "plain" THEN [r \in 1..Len(e) |-> e[r] \div 2] ELSE e

CompressMsg(kind, m) ==
    Msg(kind, m.multi, [i \in 1..Len(m.ts) |-> Compress(kind, m.ts[i])])

DecompressMsg(kind, m) ==
    Msg("dense", m.multi, [i \in 1..Len(m.ts) |-> Decompress(kind, m.ts[i])])

\* DPStrategy.embedding_dp / DPStrategy.label_dp: a fixed perturbation that is
\* not the identity
EmbeddingDP(t) == [r \in 1..Len(t) |-> t[r] + 1]
LabelDP(y) == [r \in 1..Len(y) |-> 1 - y[r]]

\* model_base(data_x): output i is w[i] * X, X the sum of the feature tensors
BaseNet(w, X) == [i \in 1..Len(w) |-> [r \in 1..Len(X) |-> w[i] * X[r]]]

\* model_fuse(hiddens): v * (sum of the hiddens)
FuseNet(v, hiddens) ==
    LET S == AddAll(hiddens) IN [r \in 1..Len(S) |-> v * S[r]]

\* sample weights, None meaning weight 1
Weight(sw, r) == IF IsNone(sw) THEN 1 ELSE At(Val(sw), r)

\* compiled_loss(y, y_pred, sample_weight): weighted absolute error
Loss(y, pred, sw) ==
    SumSeq([r \in 1..Len(pred) |-> Weight(sw, r) * Abs(pred[r] - At(y, r))])

\* d loss / d y_pred
Sign(x) == IF x > 0 THEN 1 ELSE IF x < 0 THEN -1 ELSE 0
LossGrad(y, pred, sw) ==
    [r \in 1..Len(pred) |-> Weight(sw, r) * Sign(pred[r] - At(y, r))]

\* LossesContainer / metric tracker: running mean
MetricResult(m) == IF m.n = 0 THEN 0 ELSE m.total \div m.n
MetricUpdate(m, l) == [n |-> m.n + 1, total |-> m.total + l]


\* ------------------------------------------------------------- state
VARIABLES
    \* SLBaseTFModel fields
    model_base,           \* None or [w: weight per output, iters: optimizer steps]
    model_fuse,           \* None or [w, iters, metric: running loss]
    compressor,           \* "none" | "plain" | "sparse"
    embedding_dp,         \* TRUE when dp_strategy.embedding_dp is set
    label_dp,             \* TRUE when dp_strategy.label_dp is set
    train_set, eval_set,  \* None or the iterator [batches, pos]
    has_y, has_s_w,
    tape,                 \* None or the open tape [id, X]
    h,                    \* None or the stored embedding (a dense Msg)
    train_y, eval_y,
    train_sample_weight, eval_sample_weight,
    fuse_callbacks,       \* TRUE once init_training made the CallbackList
    logs, epoch_logs,     \* None or a dict
    training_logs,        \* None or a dict
    aliased,              \* TRUE while training_logs is the epoch_logs object
    logs_shared,          \* TRUE while epoch_logs is the logs object
    \* ModelPartition fields
    mp_dataloader,        \* _dataloader: for each name, how many batches its loader holds
    mp_dataiter,          \* _dataiter: a dict of iterators, or (dict = FALSE) one iterator
    mp_ret,               \* None or the batch the last get_one_batch / forward pulled
    mp_weights,           \* model.parameters(): the value of each parameter
    mp_grads,             \* p.grad of each parameter: None or a value
    mp_opt_steps,         \* optimizer.step() calls so far
    mp_out,               \* what the last backward / apply_gradients / optim_step returned
    \* what the caller holds
    sent_h,               \* None or the last value base_forward returned
    sent_g,               \* None or the last value fuse_net returned
    ret,                  \* None or the dict the last evaluate / on_epoch_end returned
    y_pred,               \* None or the tensor the last predict returned
    op,                   \* the last call: [name, ok]
    steps,                \* calls made so far
    \* history
    ntapes,               \* tapes created so far
    tape_ok,              \* TRUE while the open tape is that of a base_forward that returned
    consumed,             \* ids of the tapes a base_backward has consumed, in order
    snap,                 \* None or the step log at the last on_train_batch_end
    val_seen,             \* val_logs merged since the last on_train_batch_end
    bwd_in,               \* None or the gradient list of the last base_backward that returned
    fuse_in,              \* None or the hidden_features of the last fuse_net that returned
    fuse_ref              \* None or what the last fuse_net that returned computed with

mp_fields == <<mp_dataloader, mp_dataiter, mp_ret, mp_weights, mp_grads,
               mp_opt_steps, mp_out>>
tf_fields == <<model_base, model_fuse, compressor, embedding_dp, label_dp,
               train_set, eval_set, has_y, has_s_w, tape, h, train_y, eval_y,
               train_sample_weight, eval_sample_weight, fuse_callbacks, logs,
               epoch_logs, training_logs, aliased, logs_shared>>
caller == <<sent_h, sent_g, ret, y_pred>>
history == <<ntapes, tape_ok, consumed, snap, val_seen, bwd_in, fuse_in, fuse_ref>>
vars == <<tf_fields, mp_fields, caller, op, steps, history>>

Call(name, ok) == [name |-> name, ok |-> ok]

\* ------------------------------------------------------------- inputs
Stages == {"train", "eval", "test"}

\* rows per batch handed to build_dataset
BatchSize == 2

XA == <<1, 2, 0, 1>>
XB == <<1, 0, 1, 1>>
YA == <<1, 0, 1, 1>>
WA == <<1, 2, 1, 1>>

\* (x, y, s_w) handed to build_dataset
BuildArgs ==
    { [x |-> <<Some(XA)>>,           y |-> None,     s_w |-> None],
      [x |-> <<Some(XA)>>,           y |-> Some(YA), s_w |-> None],
      [x |-> <<Some(XA)>>,           y |-> Some(YA), s_w |-> Some(WA)],
      [x |-> <<Some(XA)>>,           y |-> None,     s_w |-> Some(WA)],
      [x |-> <<Some(XA), Some(XB)>>, y |-> None,     s_w |-> None],
      [x |-> <<None>>,               y |-> None,     s_w |-> None],
      [x |-> <<>>,                   y |-> None,     s_w |-> None] }

\* ------------------------------------------------------------- construction
\* SLBaseModel.__init__: a builder that is None leaves its network None
NewBase(outputs) == Some([w |-> [i \in 1..outputs |-> 1], iters |-> 0])
NewFuse == Some([w |-> 1, iters |-> 0, metric |-> [n |-> 0, total |-> 0]])

\* names of the data loaders handed to ModelPartition
Names == {"train", "eval"}
\* batches in the largest data loader
MaxBatches == 2

\* parameters of the model a ModelPartition holds
NumParams == 2

\* a value a ModelPartition method hands back: kind "None" is python None,
\* "weights" a list of parameter values, "grads" a list of gradients
Out(kind, v) ==
    [kind    |-> kind,
     weights |-> IF kind = "weights" THEN v ELSE <<>>,
     grads   |-> IF kind = "grads" THEN v ELSE <<>>]
NoOut == Out("nothing", <<>>)

\* ModelPartition.__init__: one fresh iterator per data loader, parameters
\* with no gradient yet
NewPartition(loaders) ==
    /\ mp_dataloader = loaders
    /\ mp_dataiter = [dict |-> TRUE, of |-> "train", pos |-> [k \in Names |-> 0]]
    /\ mp_ret = None
    /\ mp_weights = [i \in 1..NumParams |-> 0]
    /\ mp_grads = [i \in 1..NumParams |-> None]
    /\ mp_opt_steps = 0
    /\ mp_out = NoOut

\* the arguments of SLBaseTFModel.__init__: the two builders (outputs = 0: the
\* base builder is None), whether dp_strategy is given, and the compressor
Config(outputs, fuse, dp, comp) ==
    [outputs |-> outputs, fuse |-> fuse, dp |-> dp, ldp |-> dp, comp |-> comp]

\* the same arguments with a dp_strategy whose embedding_dp is None and
\* whose label_dp is set
LabelOnly(c) == [c EXCEPT !.dp = FALSE, !.ldp = TRUE]

Configs ==
    { Config(o, TRUE, FALSE, c) : o \in {1, 2}, c \in Compressors }
    \cup { Config(1, TRUE, TRUE, "none"), Config(2, TRUE, TRUE, "sparse"),
           Config(0, TRUE, FALSE, "none"), Config(0, TRUE, FALSE, "sparse"),
           Config(1, FALSE, FALSE, "none"), Config(1, FALSE, FALSE, "plain"),
           Config(0, FALSE, FALSE, "none"),
           LabelOnly(Config(1, TRUE, TRUE, "none")) }

InitWith(configs, loaders) ==
    /\ \E c \in configs :
          /\ model_base = IF c.outputs = 0 THEN None ELSE NewBase(c.outputs)
          /\ model_fuse = IF c.fuse THEN NewFuse ELSE None
          /\ compressor = c.comp
          /\ embedding_dp = c.dp
          /\ label_dp = c.ldp
    /\ train_set = None /\ eval_set = None
    /\ has_y = FALSE /\ has_s_w = FALSE
    /\ tape = None /\ h = None
    /\ train_y = None /\ eval_y = None
    /\ train_sample_weight = None /\ eval_sample_weight = None
    /\ fuse_callbacks = FALSE
    /\ logs = None /\ epoch_logs = None /\ training_logs = None
    /\ aliased = FALSE /\ logs_shared = FALSE
    /\ \E l \in loaders : NewPartition(l)
    /\ sent_h = None /\ sent_g = None /\ ret = None /\ y_pred = None
    /\ op = Call("init", TRUE)
    /\ steps = 0
    /\ ntapes = 0 /\ tape_ok = FALSE /\ consumed = <<>>
    /\ snap = None /\ val_seen = <<>>
    /\ bwd_in = None /\ fuse_in = None /\ fuse_ref = None

Init == InitWith(Configs, {[k \in Names |-> 1]})

\* every call is one step; a call that raises leaves Fail behind
Done(name, ok) == op' = Call(name, ok) /\ steps' = steps + 1


\* ------------------------------------------------------------- build_dataset
Min(a, b) == IF a < b THEN a ELSE b

\* tf.data.Dataset.from_tensor_slices(arr).batch(bs): the batches of one array
Batches(arr, bs) ==
    [k \in 1..((Len(arr) + bs - 1) \div bs) |->
        SubSeq(arr, (k - 1) * bs + 1, Min(k * bs, Len(arr)))]

\* the flags build_dataset records
HasY(a) == ~IsNone(a.y)
HasSW(a) == ~IsNone(a.y) /\ ~IsNone(a.s_w)

\* x with the label and the sample weight appended
Columns(a) ==
    a.x \o (IF HasY(a) THEN <<a.y>> ELSE <<>>)
        \o (IF HasSW(a) THEN <<a.s_w>> ELSE <<>>)

\* iter(data_set): a lone column yields tensors, several yield tuples
NewIterator(a) ==
    LET cols == Columns(a)
        n    == Len(Batches(Val(cols[1]), BatchSize))
    IN  [batches |-> [k \in 1..n |->
                        [tuple |-> Len(cols) # 1,
                         comps |-> [i \in 1..Len(cols) |->
                                      Batches(Val(cols[i]), BatchSize)[k]]]],
         pos |-> 0]

\* variant: the train iterator, whatever the stage
TrainSetOnly(stage) == train_set

\* the iterator a stage names
StageSet(stage) == IF stage = "train" THEN train_set ELSE eval_set

\* variant: every stage name taken
AnyStage(stage) == TRUE

\* the stages build_dataset installs an iterator for
LegalStage(stage) == stage \in {"train", "eval"}

build_dataset(a, stage) ==
    /\ UNCHANGED <<model_base, model_fuse, compressor, embedding_dp, label_dp,
                   tape, h, train_y, eval_y, train_sample_weight,
                   eval_sample_weight, fuse_callbacks, logs, epoch_logs,
                   training_logs, aliased, logs_shared, mp_fields, caller,
                   history>>
    /\ IF Len(a.x) = 0
       THEN \* x[0] on the empty tuple raises
            /\ UNCHANGED <<has_y, has_s_w, train_set, eval_set>>
            /\ Done("build_dataset", FALSE)
       ELSE /\ has_y' = HasY(a)
            /\ has_s_w' = HasSW(a)
            /\ IF \E i \in 1..Len(a.x) : IsNone(a.x[i])
               THEN \* from_tensor_slices raises on a None feature
                    /\ UNCHANGED <<train_set, eval_set>>
                    /\ Done("build_dataset", FALSE)
               ELSE IF ~LegalStage(stage)
               THEN \* raise Exception("Illegal argument stage=...")
                    /\ UNCHANGED <<train_set, eval_set>>
                    /\ Done("build_dataset", FALSE)
               ELSE IF stage = "train"
               THEN /\ train_set' = Some(NewIterator(a))
                    /\ UNCHANGED eval_set
                    /\ Done("build_dataset", TRUE)
               ELSE /\ eval_set' = Some(NewIterator(a))
                    /\ UNCHANGED train_set
                    /\ Done("build_dataset", TRUE)


\* ------------------------------------------------------------- base_forward
\* init_data(): the stored labels and sample weights of both stages
StoreData(ty, ey, tw, ew) ==
    /\ train_y' = ty /\ eval_y' = ey
    /\ train_sample_weight' = tw /\ eval_sample_weight' = ew
init_data == StoreData(None, None, None, None)

\* python s[:-k]
DropLast(s, k) == IF Len(s) - k >= 1 THEN SubSeq(s, 1, Len(s) - k) ELSE <<>>
\* python s[-k]
FromEnd(s, k) == s[Len(s) + 1 - k]

\* how many trailing columns base_forward splits off
Suffix(hy, hw) == IF hy THEN (IF hw THEN 2 ELSE 1) ELSE 0

\* The split of one batch under the flags (hy, hw).
\*   ok    : FALSE when an index is out of range
\*   xs    : the feature tensors that reach model_base (empty: the empty tuple)
\*   y, sw : None or the label / sample weight that is stored
\* Slicing a tuple takes columns; slicing a lone tensor takes rows, a row
\* being a one-element tensor.
SplitBatch(b, hy, hw) ==
    LET k == Suffix(hy, hw)
        s == IF b.tuple THEN b.comps ELSE b.comps[1]
    IN  IF k > Len(s) THEN [ok |-> FALSE, xs |-> <<>>, y |-> None, sw |-> None]
        ELSE LET part(i) == IF b.tuple THEN FromEnd(s, i) ELSE <<FromEnd(s, i)>>
                 rest    == DropLast(s, k)
             IN  [ok |-> TRUE,
                  xs |-> IF k = 0 THEN b.comps
                         ELSE IF b.tuple THEN rest ELSE <<rest>>,
                  y  |-> IF k = 0 THEN None ELSE Some(part(k)),
                  sw |-> IF k = 2 THEN Some(part(1)) ELSE None]

\* variant: the label hook applied a second time to the label it returned
TwicePerturbed(y) ==
    IF IsNone(y) \/ ~label_dp THEN y ELSE Some(LabelDP(LabelDP(Val(y))))

\* the label that is stored: perturbed when label_dp is set
StoredLabel(y) == IF IsNone(y) \/ ~label_dp THEN y ELSE Some(LabelDP(Val(y)))

\* _base_forward_internal: the base network, then embedding_dp on each output
Embedding(w, X) ==
    LET out == BaseNet(w, X)
    IN  Msg("dense", Len(w) > 1,
            [i \in 1..Len(out) |->
               IF embedding_dp THEN EmbeddingDP(out[i]) ELSE out[i]])

\* tf.GradientTape(persistent=True), recording the forward pass on X
NewTape(X) == Some([id |-> ntapes + 1, X |-> X])

\* the tape base_forward leaves when it is entered with `old` open
OpenedTape(old, X) == NewTape(X)

\* variant: base_forward handing back the uncompressed embedding when it
\* cannot compress
SilentDefault(hh, compress) ==
    IF compress /\ compressor # "none" /\ ~hh.multi
    THEN Some(CompressMsg(compressor, hh))
    ELSE Some(hh)

\* What base_forward returns once the embedding hh is stored; None when it
\* raises: no compressor, or .numpy() on a list of outputs
Returned(hh, compress) ==
    IF ~compress THEN Some(hh)
    ELSE IF compressor = "none" \/ hh.multi THEN None
    ELSE Some(CompressMsg(compressor, hh))

base_forward(stage, compress) ==
    /\ UNCHANGED <<model_base, model_fuse, compressor, embedding_dp, label_dp,
                   has_y, has_s_w, fuse_callbacks, logs, epoch_logs,
                   training_logs, aliased, logs_shared, mp_fields, sent_g, ret,
                   y_pred, consumed, snap, val_seen, bwd_in, fuse_in,
                   fuse_ref>>
    /\ IF IsNone(model_base)
       THEN \* the assertion on model_base
            /\ UNCHANGED <<train_set, eval_set, tape, h, train_y, eval_y,
                           train_sample_weight, eval_sample_weight, sent_h,
                           ntapes, tape_ok>>
            /\ Done("base_forward", FALSE)
       ELSE IF stage \notin {"train", "eval"}
               \/ IsNone(StageSet(stage))
               \/ Val(StageSet(stage)).pos >= Len(Val(StageSet(stage)).batches)
       THEN \* invalid stage, next(None), or StopIteration: after init_data
            /\ init_data
            /\ UNCHANGED <<train_set, eval_set, tape, h, sent_h, ntapes,
                           tape_ok>>
            /\ Done("base_forward", FALSE)
       ELSE LET it == Val(StageSet(stage))
                b  == it.batches[it.pos + 1]
                sp == SplitBatch(b, has_y, has_s_w)
                w  == Val(model_base).w
            IN  /\ IF stage = "train"
                   THEN /\ train_set' = Some([it EXCEPT !.pos = @ + 1])
                        /\ UNCHANGED eval_set
                   ELSE /\ eval_set' = Some([it EXCEPT !.pos = @ + 1])
                        /\ UNCHANGED train_set
                /\ IF stage = "train"
                   THEN StoreData(StoredLabel(sp.y), None, sp.sw, None)
                   ELSE StoreData(None, StoredLabel(sp.y), None, sp.sw)
                /\ IF ~sp.ok
                   THEN \* the index of the label is out of range
                        /\ UNCHANGED <<tape, h, sent_h, ntapes, tape_ok>>
                        /\ Done("base_forward", FALSE)
                   ELSE IF Len(sp.xs) = 0
                   THEN \* model_base(()) raises inside the new tape
                        /\ tape' = OpenedTape(tape, <<>>)
                        /\ ntapes' = ntapes + 1
                        /\ tape_ok' = FALSE
                        /\ UNCHANGED <<h, sent_h>>
                        /\ Done("base_forward", FALSE)
                   ELSE LET X  == AddAll(sp.xs)
                            hh == Embedding(w, X)
                        IN  /\ tape' = OpenedTape(tape, X)
                            /\ ntapes' = ntapes + 1
                            /\ h' = Some(hh)
                            /\ sent_h' = IF IsNone(Returned(hh, compress))
                                          THEN sent_h
                                          ELSE Returned(hh, compress)
                            /\ tape_ok' = ~IsNone(Returned(hh, compress))
                            /\ Done("base_forward",
                                    ~IsNone(Returned(hh, compress)))


\* ------------------------------------------------------------- base_backward
\* fuse_op: forward returns x unchanged; grad(upstream) is upstream * y for x
fuse_op(x, y) == x
\* variant: a backward that drops the incoming gradient
UpstreamOnly(upstream, y) == upstream
fuse_op_grad(upstream, y) == upstream * y

\* variant: the first gradient attached to the whole embedding, whatever the
\* length of the gradient list
BroadcastHiddens(hm, gs) == <<[part |-> 0, g |-> 1]>>

\* return_hiddens: which part of the stored embedding is attached to which
\* element of the gradient list.  part i > 0 is h[i], part 0 is the whole of h.
ReturnHiddens(hm, gs) ==
    IF Len(gs) = PyLen(hm)
    THEN [i \in 1..Len(gs) |-> [part |-> i, g |-> i]]
    ELSE <<[part |-> 0, g |-> 1]>>

\* an attachment whose gradient cannot be multiplied into its part
ShapeOK(hm, rows, gs, e) ==
    LET n == Len(gs[e.g])
    IN  IF hm.multi \/ e.part = 0 THEN n = 1 \/ n = rows ELSE n = 1

\* what attachment e sends back into row r of output i of the embedding
Upstream(hm, gs, e, i, r) ==
    IF e.part = 0 \/ (hm.multi /\ e.part = i) THEN fuse_op_grad(1, At(gs[e.g], r))
    ELSE IF ~hm.multi /\ e.part = r THEN fuse_op_grad(1, gs[e.g][1])
    ELSE 0

\* tape.gradient(return_hiddens, trainable_vars): d h[i] / d w[i] is X
TapeGradient(hm, X, gs, rh) ==
    [i \in 1..Len(hm.ts) |->
        SumSeq([k \in 1..Len(rh) |->
            SumSeq([r \in 1..Len(X) |-> Upstream(hm, gs, rh[k], i, r) * X[r]])])]

\* optimizer.apply_gradients: plain gradient descent, learning rate 1
ApplyGradients(net, grads) ==
    [net EXCEPT !.w = [i \in 1..Len(net.w) |-> net.w[i] - grads[i]],
                !.iters = @ + 1]

\* mutants: base_backward leaving the tape / the embedding behind
KeptTape == tape
KeptH == h

\* "clear intermediate results"
ClearedTape == None
ClearedH == None

base_backward(g, compress) ==
    /\ UNCHANGED <<model_fuse, compressor, embedding_dp, label_dp, train_set,
                   eval_set, has_y, has_s_w, train_y, eval_y,
                   train_sample_weight, eval_sample_weight, fuse_callbacks,
                   logs, epoch_logs, training_logs, aliased, logs_shared,
                   mp_fields,
                   caller, ntapes, snap, val_seen, fuse_in, fuse_ref>>
    /\ LET usable == IF compress THEN compressor # "none" /\ g.enc = compressor
                     ELSE g.enc = "dense"
           gs     == IF compress THEN DecompressMsg(compressor, g).ts ELSE g.ts
       IN  IF ~usable \/ IsNone(tape) \/ IsNone(h)
              \/ (Len(gs) # PyLen(Val(h)) /\ Len(gs) = 0)
           THEN \* no compressor, an undecodable gradient, `with None`,
                \* len(None), or gradient[0] of an empty list
                /\ UNCHANGED <<model_base, tape, h, tape_ok, consumed,
                                        bwd_in>>
                /\ Done("base_backward", FALSE)
           ELSE LET hm == Val(h)
                    X  == Val(tape).X
                    rh == ReturnHiddens(hm, gs)
                IN  IF Len(rh) = 0
                       \/ \E k \in 1..Len(rh) : ~ShapeOK(hm, Len(X), gs, rh[k])
                    THEN \* nothing to differentiate, or a shape mismatch
                         /\ UNCHANGED <<model_base, tape, h, tape_ok, consumed,
                                        bwd_in>>
                         /\ Done("base_backward", FALSE)
                    ELSE /\ model_base' =
                              Some(ApplyGradients(Val(model_base),
                                                  TapeGradient(hm, X, gs, rh)))
                         /\ tape' = ClearedTape
                         /\ h' = ClearedH
                         /\ tape_ok' = FALSE
                         /\ consumed' = Append(consumed, Val(tape).id)
                         /\ bwd_in' = Some(Msg("dense", TRUE, gs))
                         /\ Done("base_backward", TRUE)


\* ------------------------------------------------------------- fuse_net
\* names of model_fuse.metrics
MetricNames == {<<"loss">>}
TrainKey(name) == <<"train_">> \o name

\* the hidden_features a call can work on: every one decodable when compress
\* is set (and a compressor is there), every one a plain tensor otherwise
Usable(hf, compress) ==
    IF compress
    THEN compressor # "none" /\ \A j \in 1..Len(hf) : hf[j].enc = compressor
    ELSE \A j \in 1..Len(hf) : hf[j].enc = "dense"

\* compressor.decompress(hidden_features) when compress is set
Decoded(hf, compress) ==
    IF compress THEN [j \in 1..Len(hf) |-> DecompressMsg(compressor, hf[j])]
    ELSE hf

\* hiddens: the tensors of every party, a party's list being flattened
RECURSIVE Flatten(_)
Flatten(hf) == IF Len(hf) = 0 THEN <<>> ELSE hf[1].ts \o Flatten(Tail(hf))

\* (d != 0) * 1 on one element of hidden_features; a python list is != 0
SparseMask(m) ==
    IF m.multi THEN <<1>>
    ELSE [r \in 1..Len(m.ts[1]) |-> IF m.ts[1][r] # 0 THEN 1 ELSE 0]

\* fuse_sparse_masks: None when the name was never bound
FuseSparseMasks(hf) ==
    IF compressor = "sparse"
    THEN Some([j \in 1..Len(hf) |-> SparseMask(hf[j])])
    ELSE None

\* variant: the compressed gradient left as it is
Unmasked(d, m) == d

\* d.multiply(m)
Multiply(d, m) == [r \in 1..Len(d) |-> d[r] * At(m, r)]

\* the fuse network can run on these tensors against y and sw
RunsOn(hiddens, y, sw) ==
    /\ Len(hiddens) > 0
    /\ \A j \in 1..Len(hiddens) : Len(hiddens[j]) = Len(hiddens[1])
    /\ IsNone(y) \/ Len(Val(y)) \in {1, Len(hiddens[1])}
    /\ IsNone(sw) \/ Len(Val(sw)) \in {1, Len(hiddens[1])}

\* _fuse_net_internal: the values it computes from the weight read in the
\* forward pass
FuseStep(v, hiddens, y, sw) ==
    LET S    == AddAll(hiddens)
        pred == FuseNet(v, hiddens)
        dp   == LossGrad(y, pred, sw)
    IN  [loss  |-> Loss(y, pred, sw),
         gw    |-> SumSeq([r \in 1..Len(S) |-> dp[r] * S[r]]),
         gh    |-> [j \in 1..Len(hiddens) |-> [r \in 1..Len(S) |-> dp[r] * v]]]

\* the step log fuse_net writes
StepLog(metric) == [k \in {TrainKey(n) : n \in MetricNames} |-> MetricResult(metric)]

fuse_net(hf, compress) ==
    /\ UNCHANGED <<model_base, compressor, embedding_dp, label_dp, train_set,
                   eval_set, has_y, has_s_w, tape, h, train_y, eval_y,
                   train_sample_weight, eval_sample_weight, fuse_callbacks,
                   epoch_logs, training_logs, aliased, mp_fields, sent_h,
                   ret, y_pred, ntapes, tape_ok, consumed, snap, val_seen,
                   bwd_in>>
    /\ IF IsNone(model_fuse) \/ ~Usable(hf, compress)
          \/ ~RunsOn(Flatten(Decoded(hf, compress)), train_y, train_sample_weight)
          \/ IsNone(train_y)
       THEN \* the assertion, no compressor, undecodable input, or the fuse
            \* step raising (shapes; no label: no gradient for any variable)
            /\ UNCHANGED <<model_fuse, logs, logs_shared, sent_g, fuse_in,
                           fuse_ref>>
            /\ Done("fuse_net", FALSE)
       ELSE LET net     == Val(model_fuse)
                hiddens == Flatten(Decoded(hf, compress))
                st      == FuseStep(net.w, hiddens, Val(train_y),
                                    train_sample_weight)
                metric  == MetricUpdate(net.metric, st.loss)
                masks   == FuseSparseMasks(hf)
                packed  == [j \in 1..Len(st.gh) |-> Compress(compressor, st.gh[j])]
            IN  /\ model_fuse' = Some([w |-> net.w - st.gw,
                                       iters |-> net.iters + 1,
                                       metric |-> metric])
                /\ logs' = Some(StepLog(metric))
                /\ logs_shared' = FALSE
                /\ IF ~compress
                   THEN /\ sent_g' = Some(Msg("dense", TRUE, st.gh))
                        /\ fuse_in' = Some(hf)
                        /\ fuse_ref' = Some([v |-> net.w, y |-> train_y,
                                             sw |-> train_sample_weight])
                        /\ Done("fuse_net", TRUE)
                   ELSE IF IsNone(masks) \/ Len(Val(masks)) # Len(packed)
                   THEN \* fuse_sparse_masks is unbound, or the assertion on
                        \* the number of masks
                        /\ UNCHANGED <<sent_g, fuse_in, fuse_ref>>
                        /\ Done("fuse_net", FALSE)
                   ELSE /\ sent_g' =
                              Some(Msg(compressor, TRUE,
                                   [j \in 1..Len(packed) |->
                                      Multiply(packed[j], Val(masks)[j])]))
                        /\ fuse_in' = Some(hf)
                        /\ fuse_ref' = Some([v |-> net.w, y |-> train_y,
                                             sw |-> train_sample_weight])
                        /\ Done("fuse_net", TRUE)


\* ------------------------------------------------------------- evaluate, predict
\* variant: an evaluation that also makes a training step
Trained(net, metric) ==
    [net EXCEPT !.metric = metric, !.w = @ - 1, !.iters = @ + 1]

\* the fuse network after _evaluate_internal: the accumulators updated,
\* nothing else
Evaluated(net, metric) == [net EXCEPT !.metric = metric]

evaluate(hf, compress) ==
    /\ UNCHANGED <<model_base, compressor, embedding_dp, label_dp, train_set,
                   eval_set, has_y, has_s_w, tape, h, train_y, eval_y,
                   train_sample_weight, eval_sample_weight, fuse_callbacks,
                   logs, epoch_logs, training_logs, aliased, logs_shared,
                   mp_fields,
                   sent_h, sent_g, y_pred, history>>
    /\ IF IsNone(model_fuse) \/ ~Usable(hf, compress)
          \/ ~RunsOn(Flatten(Decoded(hf, compress)), eval_y, eval_sample_weight)
       THEN /\ UNCHANGED <<model_fuse, ret>>
            /\ Done("evaluate", FALSE)
       ELSE LET net     == Val(model_fuse)
                hiddens == Flatten(Decoded(hf, compress))
                pred    == FuseNet(net.w, hiddens)
                metric  == IF IsNone(eval_y) THEN net.metric
                           ELSE MetricUpdate(net.metric,
                                    Loss(Val(eval_y), pred, eval_sample_weight))
            IN  /\ model_fuse' = Some(Evaluated(net, metric))
                /\ ret' = Some([k \in MetricNames |-> MetricResult(metric)])
                /\ Done("evaluate", TRUE)

predict(hf, compress) ==
    /\ UNCHANGED <<tf_fields, mp_fields, sent_h, sent_g, ret, history>>
    /\ IF IsNone(model_fuse) \/ ~Usable(hf, compress)
          \/ ~RunsOn(Flatten(Decoded(hf, compress)), None, None)
       THEN /\ UNCHANGED y_pred
            /\ Done("predict", FALSE)
       ELSE /\ y_pred' = Some(FuseNet(Val(model_fuse).w,
                                      Flatten(Decoded(hf, compress))))
            /\ Done("predict", TRUE)

\* ------------------------------------------------------------- lifecycle
\* dict.update
DictUpdate(d, u) ==
    [k \in DOMAIN d \cup DOMAIN u |-> IF k \in DOMAIN u THEN u[k] ELSE d[k]]

\* variant: the name kept as it is
UnprefixedKey(name) == name

\* 'val_' + name
ValKey(name) == <<"val_">> \o name

\* {'val_' + name: val for name, val in val_logs.items()}
ValLogs(val_logs) ==
    [k \in {ValKey(n) : n \in DOMAIN val_logs} |->
        val_logs[CHOOSE n \in DOMAIN val_logs : ValKey(n) = k]]

\* copy.deepcopy(self.logs)
DeepCopy(l) == l

\* variant: the epoch log being the step log object itself
AssignShares == TRUE

\* whether what deepcopy returns is the object it was given
CopyShares == FALSE

not_lifecycle == <<model_base, model_fuse, compressor, embedding_dp, label_dp,
                   train_set, eval_set, has_y, has_s_w, tape, h, train_y,
                   eval_y, train_sample_weight, eval_sample_weight,
                   mp_fields, sent_h, sent_g, y_pred, ntapes, tape_ok,
                   consumed, bwd_in, fuse_in, fuse_ref>>

\* is_list: callbacks is already a CallbackList
init_training(is_list) ==
    /\ UNCHANGED <<not_lifecycle, logs, logs_shared, epoch_logs,
                   training_logs, aliased, ret,
                   snap, val_seen>>
    /\ IF is_list
       THEN UNCHANGED fuse_callbacks /\ Done("init_training", FALSE)
       ELSE fuse_callbacks' = TRUE /\ Done("init_training", TRUE)

\* step: None or the step number
on_train_batch_end(step) ==
    /\ UNCHANGED <<not_lifecycle, logs, fuse_callbacks, training_logs, ret>>
    /\ IF IsNone(step)
       THEN /\ UNCHANGED <<epoch_logs, aliased, logs_shared, snap, val_seen>>
            /\ Done("on_train_batch_end", FALSE)
       ELSE /\ epoch_logs' = DeepCopy(logs)
            /\ aliased' = FALSE
            /\ logs_shared' = (CopyShares /\ ~IsNone(logs))
            /\ snap' = logs
            /\ val_seen' = <<>>
            /\ Done("on_train_batch_end", fuse_callbacks)

on_validation(val_logs) ==
    /\ UNCHANGED <<not_lifecycle, fuse_callbacks, aliased, logs_shared, ret,
                   snap>>
    /\ IF IsNone(epoch_logs)
       THEN /\ UNCHANGED <<logs, epoch_logs, training_logs, val_seen>>
            /\ Done("on_validation", FALSE)
       ELSE /\ epoch_logs' = Some(DictUpdate(Val(epoch_logs), ValLogs(val_logs)))
            /\ training_logs' = IF aliased THEN epoch_logs' ELSE training_logs
            /\ logs' = IF logs_shared THEN epoch_logs' ELSE logs
            /\ val_seen' = DictUpdate(val_seen, val_logs)
            /\ Done("on_validation", TRUE)

on_epoch_end ==
    /\ UNCHANGED <<not_lifecycle, logs, logs_shared, fuse_callbacks,
                   epoch_logs, snap, val_seen>>
    /\ IF ~fuse_callbacks
       THEN /\ UNCHANGED <<training_logs, aliased, ret>>
            /\ Done("on_epoch_end", FALSE)
       ELSE /\ training_logs' = epoch_logs
            /\ aliased' = TRUE
            /\ ret' = epoch_logs
            /\ Done("on_epoch_end", TRUE)


\* ------------------------------------------------------------- ModelPartition
\* batch k of the loader `name`
Batch(name, k) == [name |-> name, k |-> k]

\* self._dataiter after `except StopIteration`: iter(self._dataloader[name])
Restarted(name) ==
    [dict |-> FALSE, of |-> name, pos |-> [k \in Names |-> 0]]

\* The outcome of get_one_batch(name): [ok, iter, batch]
GetOneBatch(name) ==
    IF ~mp_dataiter.dict
    THEN \* an iterator is not subscriptable
         [ok |-> FALSE, iter |-> mp_dataiter, batch |-> None]
    ELSE IF mp_dataiter.pos[name] < mp_dataloader[name]
    THEN [ok    |-> TRUE,
          iter  |-> [mp_dataiter EXCEPT !.pos[name] = @ + 1],
          batch |-> Some(Batch(name, mp_dataiter.pos[name] + 1))]
    ELSE IF mp_dataloader[name] = 0
    THEN \* the restarted iterator is exhausted at once
         [ok |-> FALSE, iter |-> Restarted(name), batch |-> None]
    ELSE [ok    |-> TRUE,
          iter  |-> [Restarted(name) EXCEPT !.pos[name] = 1],
          batch |-> Some(Batch(name, 1))]

get_one_batch(name) ==
    /\ UNCHANGED <<tf_fields, caller, history, mp_dataloader, mp_weights,
                   mp_grads, mp_opt_steps, mp_out>>
    /\ LET r == GetOneBatch(name)
       IN  /\ mp_dataiter' = r.iter
           /\ mp_ret' = IF r.ok THEN r.batch ELSE mp_ret
           /\ Done("get_one_batch", r.ok)

\* forward(used_name): pulls one batch and runs the model on it
forward(used_name) ==
    /\ UNCHANGED <<tf_fields, caller, history, mp_dataloader, mp_weights,
                   mp_grads, mp_opt_steps, mp_out>>
    /\ LET r == GetOneBatch(used_name)
       IN  /\ mp_dataiter' = r.iter
           /\ mp_ret' = IF r.ok THEN r.batch ELSE mp_ret
           /\ Done("forward", r.ok)

\* variant: the supplied gradients dropped
KeepGradients(gradients, grads) == grads

\* SLBaseModule.set_gradients: zip(gradients, parameters), a None left out
SetGradients(gradients, grads) ==
    [i \in 1..Len(grads) |->
        IF i <= Len(gradients) /\ ~IsNone(gradients[i]) THEN gradients[i]
        ELSE grads[i]]

\* SLBaseModule.get_gradients: None for a parameter with no gradient
GetGradients(grads) == grads

\* d loss / d parameter i on one batch
LocalGrad(w, b, i) == w[i] + b.k

\* loss.backward(): the gradient of the loss is added to each p.grad
LossBackward(w, grads, b) ==
    [i \in 1..Len(grads) |->
        Some((IF IsNone(grads[i]) THEN 0 ELSE Val(grads[i])) + LocalGrad(w, b, i))]

\* optimizer.step(): gradient descent on the parameters that have a gradient
OptimizerStep(w, grads) ==
    [i \in 1..Len(w) |-> IF IsNone(grads[i]) THEN w[i] ELSE w[i] - Val(grads[i])]

\* backward(used_name, gradients): gradients is None or a list
backward(used_name, gradients) ==
    /\ UNCHANGED <<tf_fields, caller, history, mp_dataloader, mp_weights,
                   mp_opt_steps>>
    /\ IF ~IsNone(gradients)
       THEN /\ mp_grads' = SetGradients(Val(gradients), mp_grads)
            /\ mp_out' = Out("grads", GetGradients(mp_grads'))
            /\ UNCHANGED <<mp_dataiter, mp_ret>>
            /\ Done("backward", TRUE)
       ELSE LET r == GetOneBatch(used_name)
            IN  /\ mp_dataiter' = r.iter
                /\ IF r.ok
                   THEN /\ mp_ret' = r.batch
                        /\ mp_grads' = LossBackward(mp_weights, mp_grads,
                                                    Val(r.batch))
                        /\ mp_out' = Out("grads", GetGradients(mp_grads'))
                   ELSE UNCHANGED <<mp_ret, mp_grads, mp_out>>
                /\ Done("backward", r.ok)

\* what apply_gradients hands back: it has no return statement
ApplyGradientsReturn(w) == Out("None", <<>>)

\* what optim_step hands back: model.get_weights()
OptimStepReturn(w) == Out("weights", w)

\* apply_gradients(gradients): gradients is None or a list
apply_gradients(gradients) ==
    /\ UNCHANGED <<tf_fields, caller, history, mp_dataloader, mp_dataiter,
                   mp_ret>>
    /\ mp_grads' = IF IsNone(gradients) THEN mp_grads
                   ELSE SetGradients(Val(gradients), mp_grads)
    /\ mp_weights' = OptimizerStep(mp_weights, mp_grads')
    /\ mp_opt_steps' = mp_opt_steps + 1
    /\ mp_out' = ApplyGradientsReturn(mp_weights')
    /\ Done("apply_gradients", TRUE)

optim_step ==
    /\ UNCHANGED <<tf_fields, caller, history, mp_dataloader, mp_dataiter,
                   mp_ret, mp_grads>>
    /\ mp_weights' = OptimizerStep(mp_weights, mp_grads)
    /\ mp_opt_steps' = mp_opt_steps + 1
    /\ mp_out' = OptimStepReturn(mp_weights')
    /\ Done("optim_step", TRUE)


\* ------------------------------------------------------------- the callers
Dense(ts) == Msg("dense", FALSE, ts)

\* hidden_features a caller hands to fuse_net / evaluate / predict: what
\* base_forward last returned, or embeddings of other parties
HiddenInputs ==
    (IF IsNone(sent_h) THEN {} ELSE {<<Val(sent_h)>>})
    \cup { <<Dense(<<<<0, 3>>>>)>>,
           <<Dense(<<<<1, 2>>>>), Dense(<<<<0, 1>>>>)>>,
           <<Msg("dense", TRUE, <<<<1, 0>>, <<0, 2>>>>)>>,
           <<Msg("sparse", FALSE, <<<<0, 3>>>>)>>,
           <<Msg("sparse", FALSE, <<<<0, 3>>>>), Msg("sparse", FALSE, <<<<2, 0>>>>)>>,
           <<Msg("sparse", TRUE, <<<<0, 3>>, <<1, 0>>>>)>>,
           <<Msg("plain", FALSE, <<<<2, 4>>>>)>> }

\* gradient lists a caller hands to base_backward: what fuse_net last
\* returned, or lists of 0, 1 and 2 gradients
GradInputs ==
    (IF IsNone(sent_g) THEN {} ELSE {Val(sent_g)})
    \cup { Msg("dense", TRUE, <<>>),
           Msg("dense", TRUE, <<<<1, 2>>>>),
           Msg("dense", TRUE, <<<<1, 2>>, <<3, 0>>>>),
           Msg("sparse", TRUE, <<<<0, 2>>>>),
           Msg("plain", TRUE, <<<<2, 4>>>>) }

ValLogInputs ==
    { [k \in {<<"loss">>} |-> 5],
      [k \in {<<"loss">>} |-> 6],
      [k \in {<<"train_", "loss">>} |-> 7],
      [k \in {<<"val_", "loss">>} |-> 8] }

Next ==
    /\ steps < MaxSteps
    /\ UNCHANGED mp_fields
    /\ \/ \E a \in BuildArgs, stage \in Stages : build_dataset(a, stage)
       \/ \E stage \in Stages, compress \in BOOLEAN : base_forward(stage, compress)
       \/ \E g \in GradInputs, compress \in BOOLEAN : base_backward(g, compress)
       \/ \E hf \in HiddenInputs, compress \in BOOLEAN : fuse_net(hf, compress)
       \/ \E hf \in HiddenInputs, compress \in BOOLEAN : evaluate(hf, compress)
       \/ \E hf \in HiddenInputs, compress \in BOOLEAN : predict(hf, compress)

Spec == Init /\ [][Next]_vars


\* One training loop on the label-holding party: the base step feeds
\* fuse_net, and the lifecycle calls arrive in any order.
InitLife == InitWith({Config(1, TRUE, FALSE, "none")}, {[k \in Names |-> 1]})

LifeData == [x |-> <<Some(XA)>>, y |-> Some(YA), s_w |-> None]

LifeHidden ==
    (IF IsNone(sent_h) THEN {} ELSE {<<Val(sent_h)>>}) \cup {<<Dense(<<<<0, 3>>>>)>>}

NextLife ==
    /\ steps < MaxLifeSteps
    /\ UNCHANGED mp_fields
    /\ \/ build_dataset(LifeData, "train")
       \/ base_forward("train", FALSE)
       \/ \E hf \in LifeHidden : fuse_net(hf, FALSE)
       \/ \E is_list \in BOOLEAN : init_training(is_list)
       \/ \E step \in {None, Some(0)} : on_train_batch_end(step)
       \/ \E val_logs \in ValLogInputs : on_validation(val_logs)
       \/ on_epoch_end

SpecLife == InitLife /\ [][NextLife]_vars

\* One ModelPartition over non-empty finite data loaders
InitMP ==
    InitWith({Config(0, FALSE, FALSE, "none")}, [Names -> 1..MaxBatches])

\* gradients a caller hands to backward / apply_gradients: None, one per
\* parameter, or a list with a None in it
GradientLists ==
    { None, Some(<<Some(1), Some(2)>>), Some(<<None, Some(3)>>) }

NextMP ==
    /\ steps < MaxCalls
    /\ \/ \E name \in Names : get_one_batch(name)
       \/ \E used_name \in Names : forward(used_name)
       \/ \E used_name \in Names, gradients \in GradientLists :
             backward(used_name, gradients)
       \/ \E gradients \in GradientLists : apply_gradients(gradients)
       \/ optim_step

SpecMP == InitMP /\ [][NextMP]_vars


\* ------------------------------------------------------------- properties
Range(f) == {f[i] : i \in DOMAIN f}

\* the stage names an iterator that has a batch left
HasBatch(stage) ==
    /\ stage \in {"train", "eval"}
    /\ ~IsNone(StageSet(stage))
    /\ Val(StageSet(stage)).pos < Len(Val(StageSet(stage)).batches)

\* C1: a base_forward issued while the tape of a base_forward that returned
\* is still open fails, and leaves that tape and the stored embedding alone.
C1_TapeExclusive ==
    [][\A stage \in Stages, compress \in BOOLEAN :
         (~IsNone(tape) /\ tape_ok /\ base_forward(stage, compress))
            => (~op'.ok /\ tape' = tape /\ h' = h)]_vars

NextSplit(stage) ==
    SplitBatch(Val(StageSet(stage)).batches[Val(StageSet(stage)).pos + 1],
               has_y, has_s_w)

C3_TapeSingleUse ==
    [][/\ (op' = Call("base_backward", TRUE) /\ steps' # steps)
            => (/\ ~IsNone(tape)
                /\ Val(tape).id \notin Range(consumed)
                /\ consumed' = Append(consumed, Val(tape).id)
                /\ IsNone(tape'))
       /\ (op'.name = "base_backward" /\ steps' # steps /\ IsNone(tape))
            => (/\ ~op'.ok
                /\ model_base' = model_base
                /\ consumed' = consumed)]_vars

\* a second base_backward, after the one that consumed the tape, has failed
C3_Witness ==
    /\ op = Call("base_backward", FALSE)
    /\ Len(consumed) = 1
    /\ IsNone(tape)
    /\ ~IsNone(model_base) /\ Val(model_base).iters = 1

\* a key that starts with 'val_'
IsValKey(k) == Len(k) > 0 /\ k[1] = "val_"

\* C4: the log on_epoch_end returns holds every key of the step log taken at
\* the last on_train_batch_end with its value, and 'val_' + name with the
\* last value passed for every name an on_validation merged since; an
\* on_validation writes only 'val_' keys and leaves every other key alone.
C4_LifecycleOrdering ==
    [][/\ (op' = Call("on_epoch_end", TRUE) /\ steps' # steps /\ ~IsNone(snap'))
            => /\ ~IsNone(ret')
               /\ \A k \in DOMAIN Val(snap') :
                     k \in DOMAIN Val(ret') /\ Val(ret')[k] = Val(snap')[k]
               /\ \A n \in DOMAIN val_seen' :
                     /\ (<<"val_">> \o n) \in DOMAIN Val(ret')
                     /\ Val(ret')[<<"val_">> \o n] = val_seen'[n]
       /\ (op' = Call("on_validation", TRUE) /\ steps' # steps)
            => /\ \A k \in DOMAIN Val(epoch_logs) :
                     /\ k \in DOMAIN Val(epoch_logs')
                     /\ ~IsValKey(k) => Val(epoch_logs')[k] = Val(epoch_logs)[k]
               /\ \A k \in DOMAIN Val(epoch_logs') :
                     (k \notin DOMAIN Val(epoch_logs)
                        \/ Val(epoch_logs')[k] # Val(epoch_logs)[k])
                       => IsValKey(k)]_vars

\* on_epoch_end has returned a log that holds the step log and the keys of
\* two validation merges
C4_Witness ==
    /\ op = Call("on_epoch_end", TRUE)
    /\ ~IsNone(snap) /\ ~IsNone(ret)
    /\ <<"train_", "loss">> \in DOMAIN Val(ret)
    /\ <<"loss">> \in DOMAIN val_seen
    /\ <<"val_", "loss">> \in DOMAIN Val(ret)
    /\ Val(ret)[<<"val_", "loss">>] = 6
    /\ <<"val_", "train_", "loss">> \in DOMAIN Val(ret)

\* the update of base weight i in one process: the loss of the fuse network
\* on the base network's output, differentiated down to the base weight
SingleProcessStep(w, v, X, y, sw, i) ==
    LET pred(r) == v * SumSeq([j \in 1..Len(w) |-> w[j] * X[r]])
    IN  w[i] - SumSeq([r \in 1..Len(X) |->
                 Weight(sw, r) * Sign(pred(r) - At(y, r)) * v * X[r]])

\* C5: with no privacy strategy and no compression, a base_backward that is
\* given what fuse_net returned for the stored embedding alone leaves the
\* base weights where one single-process training step would.
C5_GradientIdentity ==
    [][(/\ op' = Call("base_backward", TRUE) /\ steps' # steps
        /\ ~embedding_dp /\ ~label_dp
        /\ ~IsNone(sent_g) /\ Val(sent_g).enc = "dense"
        /\ bwd_in' = sent_g
        /\ ~IsNone(fuse_in) /\ Val(fuse_in) = <<Val(h)>>
        /\ Val(fuse_ref).y = train_y
        /\ Val(fuse_ref).sw = train_sample_weight)
          => \A i \in 1..Len(Val(model_base).w) :
                Val(model_base').w[i] =
                    SingleProcessStep(Val(model_base).w, Val(fuse_ref).v,
                                      Val(tape).X, Val(train_y),
                                      train_sample_weight, i)]_vars

\* base_forward, fuse_net on its embedding, base_backward on the gradient
\* fuse_net returned: the base weight has moved
C5_Witness ==
    /\ op = Call("base_backward", TRUE)
    /\ ~embedding_dp /\ ~label_dp
    /\ ~IsNone(sent_g) /\ bwd_in = sent_g /\ Val(sent_g).enc = "dense"
    /\ ~IsNone(fuse_in) /\ ~IsNone(sent_h) /\ Val(fuse_in) = <<Val(sent_h)>>
    /\ Val(sent_h).enc = "dense"
    /\ Val(model_base).iters = 1
    /\ Val(model_base).w[1] # 1

\* the weight output i is left with when gradient g is attached to it
PairedUpdate(w, X, g, i) ==
    w[i] - SumSeq([r \in 1..Len(X) |-> At(g, r) * X[r]])

\* C6: with a stored list of N embeddings, a list of N gradients moves
\* output i by gradient i, and a list of one gradient moves every output by
\* that gradient.
C6_MultiOutputPairing ==
    [][(/\ op' = Call("base_backward", TRUE) /\ steps' # steps
        /\ Val(h).multi)
          => LET gs == Val(bwd_in').ts
                 w  == Val(model_base).w
                 X  == Val(tape).X
             IN  /\ Len(gs) = Len(Val(h).ts)
                      => \A i \in 1..Len(w) :
                            Val(model_base').w[i] = PairedUpdate(w, X, gs[i], i)
                 /\ Len(gs) = 1
                      => \A i \in 1..Len(w) :
                            Val(model_base').w[i] = PairedUpdate(w, X, gs[1], i)]_vars

\* two gradients have been paired with the two outputs and moved them apart
C6_Witness ==
    /\ op = Call("base_backward", TRUE)
    /\ Len(Val(model_base).w) = 2
    /\ Len(Val(bwd_in).ts) = 2
    /\ Val(bwd_in).ts[1] # Val(bwd_in).ts[2]
    /\ Val(model_base).w[1] # Val(model_base).w[2]

\* the batch that follows the last one pulled from the loader `name`
NextBatch(name) ==
    LET at == IF mp_dataiter.dict \/ mp_dataiter.of = name
              THEN mp_dataiter.pos[name] ELSE 0
    IN  Batch(name, IF at < mp_dataloader[name] THEN at + 1 ELSE 1)

\* C7: every get_one_batch and every forward returns a batch of the loader it
\* names, the first batch again after the last one.
C7_InfiniteRestartable ==
    [][\A name \in Names :
         (get_one_batch(name) \/ forward(name))
            => (op'.ok /\ mp_ret' = Some(NextBatch(name)))]_vars

\* C8: base_forward without a base network fails; fuse_net, evaluate and
\* predict without a fuse network fail; with no compressor every call with
\* compress set fails, hands nothing back and updates no network.
C8_MissingCollaborator ==
    [][steps' # steps =>
        /\ (IsNone(model_base) /\ op'.name = "base_forward")
             => \/ (~op'.ok /\ caller' = caller /\ tape' = tape /\ h' = h)
                \/ \A stage \in Stages, compress \in BOOLEAN :
                      ~base_forward(stage, compress)
        /\ (IsNone(model_fuse) /\ op'.name = "fuse_net")
             => \/ (~op'.ok /\ caller' = caller /\ logs' = logs)
                \/ \A hf \in HiddenInputs, compress \in BOOLEAN :
                      ~fuse_net(hf, compress)
        /\ (IsNone(model_fuse) /\ op'.name = "evaluate")
             => \/ (~op'.ok /\ caller' = caller)
                \/ \A hf \in HiddenInputs, compress \in BOOLEAN :
                      ~evaluate(hf, compress)
        /\ (IsNone(model_fuse) /\ op'.name = "predict")
             => \/ (~op'.ok /\ caller' = caller)
                \/ \A hf \in HiddenInputs, compress \in BOOLEAN :
                      ~predict(hf, compress)
        /\ (compressor = "none" /\ op'.name = "base_forward")
             => \/ (~op'.ok /\ caller' = caller)
                \/ \A stage \in Stages : ~base_forward(stage, TRUE)
        /\ (compressor = "none" /\ op'.name = "base_backward")
             => \/ (~op'.ok /\ model_base' = model_base
                    /\ tape' = tape /\ h' = h)
                \/ \A g \in GradInputs : ~base_backward(g, TRUE)
        /\ (compressor = "none" /\ op'.name = "fuse_net")
             => \/ (~op'.ok /\ caller' = caller
                    /\ model_fuse' = model_fuse /\ logs' = logs)
                \/ \A hf \in HiddenInputs : ~fuse_net(hf, TRUE)
        /\ (compressor = "none" /\ op'.name = "evaluate")
             => \/ (~op'.ok /\ caller' = caller /\ model_fuse' = model_fuse)
                \/ \A hf \in HiddenInputs : ~evaluate(hf, TRUE)
        /\ (compressor = "none" /\ op'.name = "predict")
             => \/ (~op'.ok /\ caller' = caller)
                \/ \A hf \in HiddenInputs : ~predict(hf, TRUE)]_vars

\* the first base_forward, asked to compress on a partition with no
\* compressor, has failed with the embedding computed and nothing returned
C8_Witness ==
    /\ op = Call("base_forward", FALSE)
    /\ compressor = "none"
    /\ steps = 2
    /\ ~IsNone(h) /\ ~Val(h).multi
    /\ IsNone(sent_h)

\* C9: with a compressor, compress set, decodable inputs the fuse network
\* runs on and a label, fuse_net returns the compressed gradients: re-masked
\* when the compressor is sparse, failing when the masks and the gradients
\* differ in number; as they are when the compressor is not sparse.
C9_CompressedGradients ==
    [][\A hf \in HiddenInputs :
         (/\ compressor # "none" /\ ~IsNone(model_fuse)
          /\ Usable(hf, TRUE)
          /\ RunsOn(Flatten(Decoded(hf, TRUE)), train_y, train_sample_weight)
          /\ ~IsNone(train_y)
          /\ fuse_net(hf, TRUE))
            => LET hiddens == Flatten(Decoded(hf, TRUE))
                   gh == FuseStep(Val(model_fuse).w, hiddens, Val(train_y),
                                  train_sample_weight).gh
               IN  IF compressor = "sparse"
                   THEN IF Len(hf) # Len(gh) THEN ~op'.ok
                        ELSE /\ op'.ok
                             /\ sent_g' = Some(Msg("sparse", TRUE,
                                   [j \in 1..Len(gh) |->
                                      [r \in 1..Len(gh[j]) |->
                                         Compress("sparse", gh[j])[r]
                                            * At(SparseMask(hf[j]), r)]]))
                   ELSE /\ op'.ok
                        /\ sent_g' = Some(Msg(compressor, TRUE,
                              [j \in 1..Len(gh) |-> Compress(compressor, gh[j])]))]_vars

\* C10: the gradient a sparse fuse_net returns for input i is zero wherever
\* the compressed input i is zero.
C10_ZeroPositions ==
    [][(/\ op' = Call("fuse_net", TRUE) /\ steps' # steps
        /\ compressor = "sparse"
        /\ Val(sent_g').enc = "sparse")
          => \A i \in 1..Len(Val(fuse_in')) :
               \A p \in 1..Len(Val(fuse_in')[i].ts[1]) :
                  Val(fuse_in')[i].ts[1][p] = 0 => Val(sent_g').ts[i][p] = 0]_vars

\* a sparse fuse_net has returned a gradient that is zero where its input is
\* zero and not zero elsewhere
C10_Witness ==
    /\ op = Call("fuse_net", TRUE)
    /\ compressor = "sparse"
    /\ ~IsNone(sent_g) /\ Val(sent_g).enc = "sparse"
    /\ \E i \in 1..Len(Val(fuse_in)) :
         /\ \E p \in 1..Len(Val(fuse_in)[i].ts[1]) :
               Val(fuse_in)[i].ts[1][p] = 0 /\ Val(sent_g).ts[i][p] = 0
         /\ \E p \in 1..Len(Val(sent_g).ts[i]) : Val(sent_g).ts[i][p] # 0

\* C11: a base_forward for one stage leaves the label and the sample weight
\* stored for the other stage as they are.
C11_StageKeyed ==
    [][/\ \A compress \in BOOLEAN :
            base_forward("eval", compress)
               => (train_y' = train_y
                   /\ train_sample_weight' = train_sample_weight)
       /\ \A compress \in BOOLEAN :
            base_forward("train", compress)
               => (eval_y' = eval_y
                   /\ eval_sample_weight' = eval_sample_weight)]_vars

\* C12: apply_gradients and optim_step each make one optimizer step and
\* hand back the weights the step left.
C12_StepReturnsWeights ==
    [][(op'.name \in {"apply_gradients", "optim_step"} /\ steps' # steps)
          => (/\ mp_opt_steps' = mp_opt_steps + 1
              /\ mp_out' = Out("weights", mp_weights'))]_vars

\* C13: build_dataset for a stage that is neither train nor eval fails and
\* leaves both iterators as they were.
C13_InvalidStage ==
    [][(op'.name = "build_dataset" /\ steps' # steps)
          => \/ (/\ ~op'.ok
                 /\ train_set' = train_set /\ eval_set' = eval_set)
             \/ \A a \in BuildArgs, stage \in Stages \ {"train", "eval"} :
                   ~build_dataset(a, stage)]_vars

\* a build_dataset with features and a label has failed on its stage: the
\* flags are recorded and no iterator is installed
C13_Witness ==
    /\ op = Call("build_dataset", FALSE)
    /\ has_y
    /\ IsNone(train_set) /\ IsNone(eval_set)

\* C14: build_dataset with no feature tensor (an empty tuple of features, or
\* a first feature that is None) fails and changes nothing of the partition.
C14_EmptyInput ==
    [][(op'.name = "build_dataset" /\ steps' # steps)
          => \A a \in BuildArgs, stage \in Stages :
                ((Len(a.x) = 0 \/ IsNone(a.x[1])) /\ build_dataset(a, stage))
                   => (~op'.ok /\ tf_fields' = tf_fields)]_vars

\* C15: a base_forward on a stage with no iterator, or with an iterator that
\* has no batch left, fails; it opens no tape, returns nothing and restarts
\* no iterator.
C15_StageExhausted ==
    [][(op'.name = "base_forward" /\ steps' # steps)
          => \A stage \in {"train", "eval"}, compress \in BOOLEAN :
                LET s == IF stage = "train" THEN train_set ELSE eval_set
                IN  ((IsNone(s) \/ Val(s).pos >= Len(Val(s).batches))
                       /\ base_forward(stage, compress))
                      => (/\ ~op'.ok
                          /\ tape' = tape /\ ntapes' = ntapes
                          /\ train_set' = train_set /\ eval_set' = eval_set
                          /\ sent_h' = sent_h)]_vars

\* the train iterator has given its two batches, and a third base_forward
\* has failed with the tape of the second still the open one
C15_Witness ==
    /\ op = Call("base_forward", FALSE)
    /\ ~IsNone(model_base)
    /\ ~IsNone(train_set)
    /\ Val(train_set).pos = Len(Val(train_set).batches)
    /\ IsNone(eval_set)
    /\ ntapes = 2 /\ ~IsNone(tape) /\ Val(tape).id = 2

\* C16: a partition always has a base network or a fuse network.
C16_SomeNetwork == ~IsNone(model_base) \/ ~IsNone(model_fuse)

\* the split base_forward(stage) would make of its next batch under the
\* flags (hy, hw)
SplitUnder(stage, hy, hw) ==
    SplitBatch(Val(StageSet(stage)).batches[Val(StageSet(stage)).pos + 1],
               hy, hw)

\* C17: the flags a batch is split by are those of its own stage's dataset:
\* building the dataset of one stage leaves the split base_forward makes of
\* the other stage's next batch (its features, label and weight) as it was.
C17_FlagsPerStage ==
    [][(op' = Call("build_dataset", TRUE) /\ steps' # steps)
          => /\ (eval_set' # eval_set /\ HasBatch("train"))
                  => SplitUnder("train", has_y', has_s_w')
                        = SplitUnder("train", has_y, has_s_w)
             /\ (train_set' # train_set /\ HasBatch("eval"))
                  => SplitUnder("eval", has_y', has_s_w')
                        = SplitUnder("eval", has_y, has_s_w)]_vars

\* C18: on_train_batch_end makes the epoch log a copy of the step log; an
\* on_validation leaves the step log as it was, and a fuse_net leaves the
\* epoch log as it was.
C18_IndependentSnapshot ==
    [][steps' # steps =>
        /\ (op'.name = "on_train_batch_end" /\ on_train_batch_end(Some(0)))
             => (epoch_logs' = logs /\ logs' = logs)
        /\ op'.name = "on_validation" => logs' = logs
        /\ op'.name = "fuse_net" => epoch_logs' = epoch_logs]_vars

\* a validation has been merged into the epoch log, which now differs from
\* the step log it was copied from
C18_Witness ==
    /\ op = Call("on_validation", TRUE)
    /\ ~IsNone(logs) /\ ~IsNone(epoch_logs)
    /\ snap = logs
    /\ epoch_logs # logs

\* C19: evaluate and predict make no optimizer step and leave the fuse
\* weights, the base network, the tape, the stored embedding, the stored
\* labels and sample weights and the step log as they were; predict leaves
\* the accumulators too, evaluate updates them when there is an eval label
\* and returns their values.
C19_ForwardOnly ==
    [][steps' # steps =>
        /\ op'.name \in {"evaluate", "predict"}
             => /\ model_base' = model_base
                /\ tape' = tape /\ h' = h
                /\ train_y' = train_y /\ eval_y' = eval_y
                /\ train_sample_weight' = train_sample_weight
                /\ eval_sample_weight' = eval_sample_weight
                /\ logs' = logs
                /\ IsNone(model_fuse') = IsNone(model_fuse)
                /\ ~IsNone(model_fuse)
                     => /\ Val(model_fuse').w = Val(model_fuse).w
                        /\ Val(model_fuse').iters = Val(model_fuse).iters
        /\ op'.name = "predict" => model_fuse' = model_fuse
        /\ op' = Call("evaluate", TRUE)
             => /\ ret' = Some([k \in MetricNames |->
                                  MetricResult(Val(model_fuse').metric)])
                /\ Val(model_fuse').metric.n =
                      Val(model_fuse).metric.n + (IF IsNone(eval_y) THEN 0 ELSE 1)]_vars

\* an evaluate has returned the accumulated loss of one eval batch on a fuse
\* network that has made no training step
C19_Witness ==
    /\ op = Call("evaluate", TRUE)
    /\ ~IsNone(eval_y)
    /\ Val(model_fuse).iters = 0 /\ Val(model_fuse).w = 1
    /\ Val(model_fuse).metric.n = 1
    /\ ret = Some([k \in MetricNames |-> MetricResult(Val(model_fuse).metric)])

OncePerturbed(y) ==
    IF IsNone(y) THEN None
    ELSE IF label_dp THEN Some(LabelDP(Val(y))) ELSE y

\* C21: base_forward stores the label of the batch it pulled with the label
\* hook applied once; fuse_net, evaluate, predict and base_backward leave the
\* stored labels as they are, fuse_net computing with the stored one; and the
\* embedding base_forward stores is that of the features, whatever label_dp.
C21_LabelPerturbedOnce ==
    [][steps' # steps =>
        /\ (op'.name = "base_forward" /\ train_set' # train_set)
             => /\ train_y' = OncePerturbed(SplitUnder("train", has_y, has_s_w).y)
                /\ (op'.ok \/ h' # h)
                     => Val(h').ts =
                           [i \in 1..Len(Val(model_base).w) |->
                              LET out == BaseNet(Val(model_base).w,
                                            AddAll(SplitUnder("train", has_y,
                                                              has_s_w).xs))[i]
                              IN  IF embedding_dp THEN EmbeddingDP(out) ELSE out]
        /\ (op'.name = "base_forward" /\ eval_set' # eval_set)
             => eval_y' = OncePerturbed(SplitUnder("eval", has_y, has_s_w).y)
        /\ op'.name \in {"fuse_net", "evaluate", "predict", "base_backward"}
             => (train_y' = train_y /\ eval_y' = eval_y)
        /\ op' = Call("fuse_net", TRUE) => Val(fuse_ref').y = train_y]_vars

\* with label privacy alone, fuse_net has computed against the label of the
\* first train batch perturbed once
C21_Witness ==
    /\ op = Call("fuse_net", TRUE)
    /\ label_dp /\ ~embedding_dp
    /\ train_y = Some(LabelDP(SubSeq(YA, 1, 2)))
    /\ Val(fuse_ref).y = train_y

\* C22: whatever calls were made, failed ones included, the tape is open
\* exactly when an embedding is stored.
C22_TapeIffEmbedding == IsNone(tape) <=> IsNone(h)

\* C23: a base_forward call that fails leaves the tape and the stored
\* embedding as they were before the call.
C23_FailedForwardKeepsTape ==
    [][(op' = Call("base_forward", FALSE) /\ steps' # steps)
          => (tape' = tape /\ h' = h)]_vars

=============================================================================
